---- MODULE Spec2Model ----
(***************************************************************************)
(* Model of the TPM handle lifecycle of package tpm (src/tpm/info.go):     *)
(* TPM.Open, TPM.Close and the callers that drive them.  Every goroutine   *)
(* is a thread of the model; a handler is cut into steps only where other  *)
(* goroutines can interleave (the blocking Lock, and each external call    *)
(* made while the lock is held).                                           *)
(***************************************************************************)
EXTENDS Integers, Sequences, FiniteSets, TLC

\* ------------------------------------------------------------------ bounds
NumThreads == 2   \* goroutines sharing one *TPM
MaxDepth == 2     \* nesting depth of internal (reentrant) calls on one chain
MaxOpens == 3     \* non-reentrant Open calls made in one behaviour
MaxOpts == 2      \* options passed to New
MaxSANs == 2      \* subject alternative names of a template
MaxExts == 1      \* custom extensions of a template

Threads == 1..NumThreads

\* ------------------------------------------------------------------ values
\* The nil pointer / nil interface value of attestTPM, rwc and simulator.
Nil == [kind |-> "nil", cfg |-> "none", dev |-> "none", id |-> 0]

\* The one simulator instance a handle may be constructed with.
TheSimulator == [kind |-> "simulator", cfg |-> "none", dev |-> "none", id |-> 0]

\* The default attestation configuration set by New.
AttestConfig == "TPMVersion20"

\* The configuration Open builds for the simulator: TPM 2.0 over the
\* simulator as command channel.
SimulatorConfig == "TPMVersion20+CommandChannel=simulator"

\* Device names a handle can be constructed with ("" is the default device).
DeviceNames == {"", "/dev/tpmrm0"}

\* Stores a handle can be constructed with.
Stores == {"BlackHole", "Store"}

\* A call context: the internal-call marker and the go-tpm (raw transport)
\* marker.
Contexts == [internal : BOOLEAN, goTPM : BOOLEAN]

isInternalCall(c) == c.internal

isGoTPMCall(c) == c.goTPM

\* The mutex has no owner in Go; the holder is kept to name who locked it.
Free == 0

NoCall == [call |-> "none", target |-> "none", err |-> FALSE]

VARIABLES
    deviceName,  \* t.deviceName
    attestConfig, \* t.attestConfig
    store,       \* t.store
    simulator,   \* t.simulator
    attestTPM,   \* t.attestTPM
    rwc,         \* t.rwc
    lock,        \* t.lock: Free, or the thread whose Lock() acquired it
    pc,          \* per thread: position in Open/Close, or "caller"
    ctx,         \* per thread: the context of the current (or last) call
    session,     \* per thread: "none" | "open" | "closing" (caller's view)
    depth,       \* per thread: internal Opens not yet matched by a Close
    ret,         \* per thread: what the last returned call returned
    closeErr,    \* per thread: a backend Close() failed in the running Close
    opens,       \* number of non-reentrant Open calls made so far
    made,        \* number of backend objects established so far
    ev,          \* the external call made by the last step
    loads,       \* per thread: store.Load() calls made by its current Open
    opts,        \* the options New has still to apply (New's argument)
    info,        \* per thread: the position and record of its Info call
    tmpl,        \* x509util: the Certificate (JSON template) given
    cert,        \* x509util: the *x509.Certificate built from it
    out,         \* x509util: what CreateCertificate returned
    xpc          \* x509util: position in the template pipeline

handle == <<deviceName, attestConfig, store, simulator, attestTPM, rwc, lock>>
vars == <<deviceName, attestConfig, store, simulator, attestTPM, rwc, lock,
          pc, ctx, session, depth, ret, closeErr, opens, made, ev, loads,
          opts, info, tmpl, cert, out, xpc>>

\* ------------------------------------------------------------ collaborators
\* store.Load(): the black-hole store never fails, any other store may.
Load(s) == IF s = "BlackHole" THEN {"ok"} ELSE {"ok", "err"}

\* attest.OpenTPM(cfg): a fresh session object, or an error.
OpenTPM(cfg, n) == [kind |-> "attest", cfg |-> cfg, dev |-> "none", id |-> n]

\* open.TPM(deviceName): a fresh raw channel, or an error.
openTPM(name, n) == [kind |-> "rwc", cfg |-> "none", dev |-> name, id |-> n]

Outcomes == {"ok", "err"}

\* An Info call that has not started (or has returned): what it did so far.
InfoIdle == [at |-> "idle", opened |-> FALSE, reads |-> 0, closes |-> 0,
             result |-> "none"]

\* The x509util pipeline is not running.
X509Off == tmpl = <<>> /\ cert = <<>> /\ out = "none" /\ xpc = "off"

\* The variables no step of Open or Close reads or writes.
others == <<opts, info, tmpl, cert, out, xpc>>

\* ------------------------------------------------------------------- Init
\* The state after New(opts...): no backend, lock free.
Init ==
    /\ deviceName \in DeviceNames
    /\ attestConfig = AttestConfig
    /\ store \in Stores
    /\ simulator \in {Nil, TheSimulator}
    /\ attestTPM = Nil
    /\ rwc = Nil
    /\ lock = Free
    /\ pc = [t \in Threads |-> "caller"]
    /\ ctx = [t \in Threads |-> [internal |-> FALSE, goTPM |-> FALSE]]
    /\ session = [t \in Threads |-> "none"]
    /\ depth = [t \in Threads |-> 0]
    /\ ret = [t \in Threads |-> "none"]
    /\ closeErr = [t \in Threads |-> FALSE]
    /\ opens = 0
    /\ made = 0
    /\ ev = NoCall
    /\ loads = [t \in Threads |-> 0]
    /\ opts = <<>>
    /\ info = [t \in Threads |-> InfoIdle]
    /\ X509Off

\* A fatal runtime error ends the process: no goroutine steps after it.
Running == \A t \in Threads : pc[t] # "fatal"

\* ---------------------------------------------------------------- callers
\* A caller invokes t.Open(ctx).  A non-reentrant Open starts a new cycle on
\* a chain that has none; an Open carrying the internal-call marker is made
\* inside a cycle of the same chain (the context is derived from the
\* chain's, so it keeps the go-tpm marker).
CallOpen(t) ==
    /\ Running
    /\ pc[t] = "caller"
    /\ \E c \in Contexts :
        /\ IF isInternalCall(c)
              THEN /\ depth[t] < MaxDepth
                   /\ session[t] = "open"
                   /\ c.goTPM = ctx[t].goTPM
              ELSE /\ session[t] = "none"
                   /\ depth[t] = 0
                   /\ opens < MaxOpens
        /\ ctx' = [ctx EXCEPT ![t] = c]
        /\ opens' = IF isInternalCall(c) THEN opens ELSE opens + 1
    /\ pc' = [pc EXCEPT ![t] = "Open"]
    /\ loads' = [loads EXCEPT ![t] = 0]
    /\ ev' = NoCall
    /\ UNCHANGED <<handle, session, depth, ret, closeErr, made>>

\* A caller invokes t.Close(ctx): with the internal-call marker to match an
\* internal Open, without it to match the successful non-reentrant Open.
CallClose(t) ==
    /\ Running
    /\ pc[t] = "caller"
    /\ IF depth[t] > 0
          THEN /\ ctx' = [ctx EXCEPT ![t].internal = TRUE]
               /\ UNCHANGED session
          ELSE /\ session[t] = "open"
               /\ ctx' = [ctx EXCEPT ![t].internal = FALSE]
               /\ session' = [session EXCEPT ![t] = "closing"]
    /\ pc' = [pc EXCEPT ![t] = "Close"]
    /\ closeErr' = [closeErr EXCEPT ![t] = FALSE]
    /\ ev' = NoCall
    /\ UNCHANGED <<handle, depth, ret, opens, made, loads>>

\* ------------------------------------------------------------------- Open
\* Variant of OpenEntry that does not look at the internal-call marker.
OpenEntryIgnoresMarker(t) ==
    /\ Running
    /\ pc[t] = "Open"
    /\ pc' = [pc EXCEPT ![t] = "Open_lock"]
    /\ ev' = NoCall
    /\ UNCHANGED <<handle, ctx, session, depth, ret, closeErr, opens, made, loads>>

\* if isInternalCall(ctx) { return nil }
OpenEntry(t) ==
    /\ Running
    /\ pc[t] = "Open"
    /\ IF isInternalCall(ctx[t])
          THEN /\ pc' = [pc EXCEPT ![t] = "caller"]
               /\ ret' = [ret EXCEPT ![t] = "ok"]
               /\ depth' = [depth EXCEPT ![t] = @ + 1]
          ELSE /\ pc' = [pc EXCEPT ![t] = "Open_lock"]
               /\ UNCHANGED <<ret, depth>>
    /\ ev' = NoCall
    /\ UNCHANGED <<handle, ctx, session, closeErr, opens, made, loads>>

\* Variant of OpenLock that proceeds without waiting for the mutex.
OpenLockNoWait(t) ==
    /\ Running
    /\ pc[t] = "Open_lock"
    /\ lock' = t
    /\ pc' = [pc EXCEPT ![t] = "Open_load"]
    /\ ev' = [call |-> "Lock", target |-> "lock", err |-> FALSE]
    /\ UNCHANGED <<deviceName, attestConfig, store, simulator, attestTPM, rwc,
                   ctx, session, depth, ret, closeErr, opens, made, loads>>

\* t.lock.Lock(): blocks until the mutex is free.
OpenLock(t) ==
    /\ Running
    /\ pc[t] = "Open_lock"
    /\ lock = Free
    /\ lock' = t
    /\ pc' = [pc EXCEPT ![t] = "Open_load"]
    /\ ev' = [call |-> "Lock", target |-> "lock", err |-> FALSE]
    /\ UNCHANGED <<deviceName, attestConfig, store, simulator, attestTPM, rwc,
                   ctx, session, depth, ret, closeErr, opens, made, loads>>

\* Variant of OpenLoad that drops the error of store.Load() and goes on.
OpenLoadIgnoresError(t) ==
    /\ Running
    /\ pc[t] = "Open_load"
    /\ \E r \in Load(store) :
        ev' = [call |-> "store.Load", target |-> "store", err |-> (r = "err")]
    /\ pc' = [pc EXCEPT ![t] = "Open_backend"]
    /\ loads' = [loads EXCEPT ![t] = @ + 1]
    /\ UNCHANGED <<handle, ctx, session, depth, ret, closeErr, opens, made>>

\* if err := t.store.Load(); err != nil { return err }
OpenLoad(t) ==
    /\ Running
    /\ pc[t] = "Open_load"
    /\ \E r \in Load(store) :
        /\ ev' = [call |-> "store.Load", target |-> "store", err |-> (r = "err")]
        /\ IF r = "err"
              THEN /\ pc' = [pc EXCEPT ![t] = "caller"]
                   /\ ret' = [ret EXCEPT ![t] = "err"]
              ELSE /\ pc' = [pc EXCEPT ![t] = "Open_backend"]
                   /\ UNCHANGED ret
    /\ loads' = [loads EXCEPT ![t] = @ + 1]
    /\ UNCHANGED <<handle, ctx, session, depth, closeErr, opens, made>>

\* Open returns err from backend establishment: nothing is assigned.
OpenFails(t, call) ==
    /\ ev' = [call |-> call, target |-> "none", err |-> TRUE]
    /\ pc' = [pc EXCEPT ![t] = "caller"]
    /\ ret' = [ret EXCEPT ![t] = "err"]
    /\ UNCHANGED <<handle, ctx, session, depth, closeErr, opens, made, loads>>

\* Open returns nil with the backend fields as given.
OpenSucceeds(t, at, ch, call, n) ==
    /\ attestTPM' = at
    /\ rwc' = ch
    /\ made' = n
    /\ ev' = [call |-> call, target |-> "none", err |-> FALSE]
    /\ pc' = [pc EXCEPT ![t] = "caller"]
    /\ ret' = [ret EXCEPT ![t] = "ok"]
    /\ session' = [session EXCEPT ![t] = "open"]
    /\ UNCHANGED <<deviceName, attestConfig, store, simulator, lock, ctx, depth,
                   closeErr, opens, loads>>

\* Variant of OpenSimulator without the attestTPM == nil test: a session is
\* established on every Open.
OpenSimulatorReopens(t, r) ==
    IF r = "err"
       THEN OpenFails(t, "attest.OpenTPM")
       ELSE OpenSucceeds(t, OpenTPM(SimulatorConfig, made + 1), simulator,
                         "attest.OpenTPM", made + 1)

\* The simulator branch of Open.
OpenSimulator(t, r) ==
    IF attestTPM = Nil
       THEN IF r = "err"
               THEN OpenFails(t, "attest.OpenTPM")
               ELSE OpenSucceeds(t, OpenTPM(SimulatorConfig, made + 1), simulator,
                                 "attest.OpenTPM", made + 1)
       ELSE OpenSucceeds(t, attestTPM, simulator, "none", made)

\* Variant of OpenRaw that falls through into the attestation branch.
OpenRawAlsoAttest(t, r) ==
    IF r = "err"
       THEN OpenFails(t, "open.TPM")
       ELSE OpenSucceeds(t, OpenTPM(AttestConfig, made + 2),
                         openTPM(deviceName, made + 1), "open.TPM", made + 2)

\* The go-tpm branch of Open: open.TPM(t.deviceName).
OpenRaw(t, r) ==
    IF r = "err"
       THEN OpenFails(t, "open.TPM")
       ELSE OpenSucceeds(t, attestTPM, openTPM(deviceName, made + 1),
                         "open.TPM", made + 1)

\* Variant of OpenAttest that assigns t.attestTPM before testing err.
OpenAttestAssignsOnError(t, r) ==
    IF r = "err"
       THEN /\ attestTPM' = OpenTPM(attestConfig, made + 1)
            /\ made' = made + 1
            /\ ev' = [call |-> "attest.OpenTPM", target |-> "none", err |-> TRUE]
            /\ pc' = [pc EXCEPT ![t] = "caller"]
            /\ ret' = [ret EXCEPT ![t] = "err"]
            /\ UNCHANGED <<deviceName, attestConfig, store, simulator, rwc, lock,
                           ctx, session, depth, closeErr, opens, loads>>
       ELSE OpenSucceeds(t, OpenTPM(attestConfig, made + 1), rwc,
                         "attest.OpenTPM", made + 1)

\* The default branch of Open: attest.OpenTPM(t.attestConfig).
OpenAttest(t, r) ==
    IF r = "err"
       THEN OpenFails(t, "attest.OpenTPM")
       ELSE OpenSucceeds(t, OpenTPM(attestConfig, made + 1), rwc,
                         "attest.OpenTPM", made + 1)

\* Variant of OpenBackend that tests the go-tpm marker before the simulator.
OpenBackendMarkerFirst(t) ==
    /\ Running
    /\ pc[t] = "Open_backend"
    /\ \E r \in Outcomes :
        IF isGoTPMCall(ctx[t])
           THEN OpenRaw(t, r)
           ELSE IF simulator # Nil
                   THEN OpenSimulator(t, r)
                   ELSE OpenAttest(t, r)

\* Backend selection and establishment, up to Open's return.
OpenBackend(t) ==
    /\ Running
    /\ pc[t] = "Open_backend"
    /\ \E r \in Outcomes :
        IF simulator # Nil
           THEN OpenSimulator(t, r)
           ELSE IF isGoTPMCall(ctx[t])
                   THEN OpenRaw(t, r)
                   ELSE OpenAttest(t, r)

\* ------------------------------------------------------------------ Close
\* t.lock.Unlock() followed by Close's return.  Unlocking a mutex that is
\* not locked is a fatal runtime error.
UnlockAndReturn(t) ==
    /\ IF lock = Free
          THEN /\ pc' = [pc EXCEPT ![t] = "fatal"]
               /\ UNCHANGED <<lock, ret, session>>
          ELSE /\ lock' = Free
               /\ pc' = [pc EXCEPT ![t] = "caller"]
               /\ ret' = [ret EXCEPT ![t] = "void"]
               /\ session' = [session EXCEPT ![t] = "none"]
    /\ ev' = [call |-> "Unlock", target |-> "lock", err |-> FALSE]
    /\ UNCHANGED <<deviceName, attestConfig, store, simulator, attestTPM, rwc,
                   ctx, depth, closeErr, opens, made, loads>>

\* Variant of CloseEntry without the simulator early return.
CloseEntryNoSimulatorCheck(t) ==
    /\ Running
    /\ pc[t] = "Close"
    /\ IF isInternalCall(ctx[t])
          THEN /\ pc' = [pc EXCEPT ![t] = "caller"]
               /\ ret' = [ret EXCEPT ![t] = "void"]
               /\ depth' = [depth EXCEPT ![t] = @ - 1]
          ELSE /\ pc' = [pc EXCEPT ![t] = "Close_attest"]
               /\ UNCHANGED <<ret, depth>>
    /\ ev' = NoCall
    /\ UNCHANGED <<handle, ctx, session, closeErr, opens, made, loads>>

\* if isInternalCall(ctx) { return }; if t.simulator != nil { Unlock; return }
CloseEntry(t) ==
    /\ Running
    /\ pc[t] = "Close"
    /\ IF isInternalCall(ctx[t])
          THEN /\ pc' = [pc EXCEPT ![t] = "caller"]
               /\ ret' = [ret EXCEPT ![t] = "void"]
               /\ depth' = [depth EXCEPT ![t] = @ - 1]
               /\ ev' = NoCall
               /\ UNCHANGED <<handle, ctx, session, closeErr, opens, made, loads>>
          ELSE IF simulator # Nil
                  THEN UnlockAndReturn(t)
                  ELSE /\ pc' = [pc EXCEPT ![t] = "Close_attest"]
                       /\ ev' = NoCall
                       /\ UNCHANGED <<handle, ctx, session, depth, ret,
                                      closeErr, opens, made, loads>>

\* Variant of CloseAttest that closes the session but keeps the field.
CloseAttestKeepsField(t) ==
    /\ Running
    /\ pc[t] = "Close_attest"
    /\ IF attestTPM # Nil
          THEN \E r \in Outcomes :
                /\ ev' = [call |-> "attestTPM.Close", target |-> attestTPM.kind,
                          err |-> (r = "err")]
                /\ closeErr' = [closeErr EXCEPT ![t] = @ \/ (r = "err")]
          ELSE /\ ev' = NoCall
               /\ UNCHANGED closeErr
    /\ pc' = [pc EXCEPT ![t] = "Close_rwc"]
    /\ UNCHANGED <<handle, ctx, session, depth, ret, opens, made, loads>>

\* if t.attestTPM != nil { err := t.attestTPM.Close(); _ = err; t.attestTPM = nil }
CloseAttest(t) ==
    /\ Running
    /\ pc[t] = "Close_attest"
    /\ IF attestTPM # Nil
          THEN \E r \in Outcomes :
                /\ ev' = [call |-> "attestTPM.Close", target |-> attestTPM.kind,
                          err |-> (r = "err")]
                /\ closeErr' = [closeErr EXCEPT ![t] = @ \/ (r = "err")]
                /\ attestTPM' = Nil
          ELSE /\ ev' = NoCall
               /\ UNCHANGED <<attestTPM, closeErr>>
    /\ pc' = [pc EXCEPT ![t] = "Close_rwc"]
    /\ UNCHANGED <<deviceName, attestConfig, store, simulator, rwc, lock,
                   ctx, session, depth, ret, opens, made, loads>>

\* Variant of CloseRwc that returns the error of rwc.Close() to the caller
\* instead of discarding it.
CloseRwcReturnsOnError(t) ==
    /\ Running
    /\ pc[t] = "Close_rwc"
    /\ IF rwc # Nil
          THEN \E r \in Outcomes :
                /\ ev' = [call |-> "rwc.Close", target |-> rwc.kind,
                          err |-> (r = "err")]
                /\ closeErr' = [closeErr EXCEPT ![t] = @ \/ (r = "err")]
                /\ IF r = "err"
                      THEN /\ pc' = [pc EXCEPT ![t] = "caller"]
                           /\ ret' = [ret EXCEPT ![t] = "err"]
                           /\ UNCHANGED rwc
                      ELSE /\ pc' = [pc EXCEPT ![t] = "Close_unlock"]
                           /\ rwc' = Nil
                           /\ UNCHANGED ret
          ELSE /\ ev' = NoCall
               /\ pc' = [pc EXCEPT ![t] = "Close_unlock"]
               /\ UNCHANGED <<rwc, closeErr, ret>>
    /\ UNCHANGED <<deviceName, attestConfig, store, simulator, attestTPM, lock,
                   ctx, session, depth, opens, made, loads>>

\* if t.rwc != nil { err := t.rwc.Close(); _ = err; t.rwc = nil }
CloseRwc(t) ==
    /\ Running
    /\ pc[t] = "Close_rwc"
    /\ IF rwc # Nil
          THEN \E r \in Outcomes :
                /\ ev' = [call |-> "rwc.Close", target |-> rwc.kind,
                          err |-> (r = "err")]
                /\ closeErr' = [closeErr EXCEPT ![t] = @ \/ (r = "err")]
                /\ rwc' = Nil
          ELSE /\ ev' = NoCall
               /\ UNCHANGED <<rwc, closeErr>>
    /\ pc' = [pc EXCEPT ![t] = "Close_unlock"]
    /\ UNCHANGED <<deviceName, attestConfig, store, simulator, attestTPM, lock,
                   ctx, session, depth, ret, opens, made, loads>>

\* t.lock.Unlock() at the end of Close.
CloseUnlock(t) ==
    /\ Running
    /\ pc[t] = "Close_unlock"
    /\ UnlockAndReturn(t)

\* ------------------------------------------------------------------- Next
Next ==
    \E t \in Threads :
        \/ CallOpen(t) /\ UNCHANGED others
        \/ OpenEntry(t) /\ UNCHANGED others
        \/ OpenLock(t) /\ UNCHANGED others
        \/ OpenLoad(t) /\ UNCHANGED others
        \/ OpenBackend(t) /\ UNCHANGED others
        \/ CallClose(t) /\ UNCHANGED others
        \/ CloseEntry(t) /\ UNCHANGED others
        \/ CloseAttest(t) /\ UNCHANGED others
        \/ CloseRwc(t) /\ UNCHANGED others
        \/ CloseUnlock(t) /\ UNCHANGED others

Spec == Init /\ [][Next]_vars

\* -------------------------------------------------------------------- New
\* The nil storage.TPMStore.
NilStore == "nil"

\* The option values: each is a func(t *TPM) error closing over its argument.
WithDeviceName(name) == [opt |-> "WithDeviceName", arg |-> name]

WithStore(st) == [opt |-> "WithStore", arg |-> st]

\* The option that attaches the simulator.
WithSimulator == [opt |-> "WithSimulator", arg |-> "simulator"]

NewTPMOptions ==
    {WithDeviceName(n) : n \in DeviceNames}
        \cup {WithStore(st) : st \in {NilStore, "Store"}}
        \cup {WithSimulator}

\* The argument lists New is called with.
OptionLists == UNION {[1..n -> NewTPMOptions] : n \in 0..MaxOpts}

\* The fields an option may assign, as one record.
Fields == [deviceName |-> deviceName, store |-> store, simulator |-> simulator]

\* Variant of ApplyOption in which WithStore stores its argument as it is.
ApplyOptionNoNilCheck(o, f) ==
    IF o.opt = "WithDeviceName" THEN [f EXCEPT !.deviceName = o.arg]
    ELSE IF o.opt = "WithStore" THEN [f EXCEPT !.store = o.arg]
    ELSE [f EXCEPT !.simulator = TheSimulator]

\* o(tpm): what calling option o does to the fields f.
ApplyOption(o, f) ==
    IF o.opt = "WithDeviceName" THEN [f EXCEPT !.deviceName = o.arg]
    ELSE IF o.opt = "WithStore"
            THEN [f EXCEPT !.store = IF o.arg = NilStore THEN "BlackHole" ELSE o.arg]
    ELSE [f EXCEPT !.simulator = TheSimulator]

\* The state New's struct literal leaves, before the first option runs.
InitNew ==
    /\ deviceName = ""
    /\ attestConfig = AttestConfig
    /\ store = "BlackHole"
    /\ simulator = Nil
    /\ attestTPM = Nil
    /\ rwc = Nil
    /\ lock = Free
    /\ pc = [t \in Threads |-> "New"]
    /\ ctx = [t \in Threads |-> [internal |-> FALSE, goTPM |-> FALSE]]
    /\ session = [t \in Threads |-> "none"]
    /\ depth = [t \in Threads |-> 0]
    /\ ret = [t \in Threads |-> "none"]
    /\ closeErr = [t \in Threads |-> FALSE]
    /\ opens = 0
    /\ made = 0
    /\ ev = NoCall
    /\ loads = [t \in Threads |-> 0]
    /\ opts \in OptionLists
    /\ info = [t \in Threads |-> InfoIdle]
    /\ X509Off

\* One round of `for _, o := range opts`: the next option is applied.
NewOption ==
    /\ \A t \in Threads : pc[t] = "New"
    /\ opts # <<>>
    /\ LET f == ApplyOption(Head(opts), Fields)
       IN /\ deviceName' = f.deviceName
          /\ store' = f.store
          /\ simulator' = f.simulator
    /\ opts' = Tail(opts)
    /\ ev' = [call |-> Head(opts).opt, target |-> Head(opts).arg, err |-> FALSE]
    /\ UNCHANGED <<attestConfig, attestTPM, rwc, lock, pc, ctx, session, depth,
                   ret, closeErr, opens, made, loads, info, tmpl, cert, out, xpc>>

\* return tpm, nil: the handle is handed to its users.
NewReturn ==
    /\ \A t \in Threads : pc[t] = "New"
    /\ opts = <<>>
    /\ pc' = [t \in Threads |-> "caller"]
    /\ UNCHANGED <<handle, ctx, session, depth, ret, closeErr, opens, made, ev,
                   loads, opts, info, tmpl, cert, out, xpc>>

NextNew ==
    \/ NewOption
    \/ NewReturn
    \/ Next

SpecNew == InitNew /\ [][NextNew]_vars

\* ------------------------------------------------------------------- Info
\* The variables of the x509util pipeline and of New.
xvars == <<opts, tmpl, cert, out, xpc>>

\* A goroutine calls t.Info(ctx), whose first statement calls t.Open(ctx).
\* The context is the caller's: any combination of the two markers.  Here
\* opens counts the Info calls made.
InfoCall(t) ==
    /\ Running
    /\ pc[t] = "caller"
    /\ info[t].at = "idle"
    /\ opens < MaxOpens
    /\ \E c \in Contexts : ctx' = [ctx EXCEPT ![t] = c]
    /\ opens' = opens + 1
    /\ pc' = [pc EXCEPT ![t] = "Open"]
    /\ loads' = [loads EXCEPT ![t] = 0]
    /\ info' = [info EXCEPT ![t] = [InfoIdle EXCEPT !.at = "Open"]]
    /\ ev' = NoCall
    /\ UNCHANGED <<handle, session, depth, ret, closeErr, made, xvars>>

\* Info's frame is gone when it returns: its ctx, and what the calls it made
\* returned to it.
InfoFrameGone(t) ==
    /\ ctx' = [ctx EXCEPT ![t] = [internal |-> FALSE, goTPM |-> FALSE]]
    /\ ret' = [ret EXCEPT ![t] = "none"]
    /\ closeErr' = [closeErr EXCEPT ![t] = FALSE]
    /\ loads' = [loads EXCEPT ![t] = 0]

\* if err := t.Open(ctx); err != nil { return nil, fmt.Errorf(...) }
InfoOpenFailed(t) ==
    /\ Running
    /\ pc[t] = "caller"
    /\ info[t].at = "Open"
    /\ ret[t] = "err"
    /\ info' = [info EXCEPT ![t].at = "idle", ![t].result = "failed opening TPM"]
    /\ InfoFrameGone(t)
    /\ ev' = NoCall
    /\ UNCHANGED <<handle, pc, session, depth, opens, made, xvars>>

\* The deferred t.Close(ctx) starts as Info leaves with result res.
InfoLeaves(t, res) ==
    /\ info' = [info EXCEPT ![t].at = "Close", ![t].opened = TRUE,
                            ![t].reads = @ + 1, ![t].closes = @ + 1,
                            ![t].result = res]
    /\ pc' = [pc EXCEPT ![t] = "Close"]
    /\ closeErr' = [closeErr EXCEPT ![t] = FALSE]
    /\ session' = [session EXCEPT ![t] =
                        IF isInternalCall(ctx[t]) THEN @ ELSE "closing"]
    /\ UNCHANGED <<handle, ctx, depth, ret, opens, made, loads, xvars>>

\* Variant of InfoRead without the defer: Close is called on the success
\* path only.
InfoReadNoDefer(t) ==
    /\ Running
    /\ pc[t] = "caller"
    /\ info[t].at = "Open"
    /\ ret[t] = "ok"
    /\ ev' = [call |-> "attestTPM.Info", target |-> attestTPM.kind, err |-> FALSE]
    /\ IF attestTPM = Nil
          THEN InfoLeaves(t, "panic")
          ELSE \/ InfoLeaves(t, "ok")
               \/ /\ info' = [info EXCEPT ![t].at = "idle", ![t].opened = TRUE,
                                          ![t].reads = @ + 1,
                                          ![t].result = "failed getting TPM info"]
                  /\ InfoFrameGone(t)
                  /\ UNCHANGED <<handle, pc, session, depth, opens, made, xvars>>

\* defer t.Close(ctx); info, err := t.attestTPM.Info(); ...; return.
\* Calling Info on a nil *attest.TPM dereferences nil: a run-time panic.
\* On every way out (result, error or panic) the deferred Close runs.
InfoRead(t) ==
    /\ Running
    /\ pc[t] = "caller"
    /\ info[t].at = "Open"
    /\ ret[t] = "ok"
    /\ ev' = [call |-> "attestTPM.Info", target |-> attestTPM.kind, err |-> FALSE]
    /\ IF attestTPM = Nil
          THEN InfoLeaves(t, "panic")
          ELSE \E r \in Outcomes :
                InfoLeaves(t, IF r = "ok" THEN "ok" ELSE "failed getting TPM info")

\* The deferred Close has returned: Info returns to its caller, or the panic
\* goes on up the stack and ends the process.
InfoReturn(t) ==
    /\ Running
    /\ pc[t] = "caller"
    /\ info[t].at = "Close"
    /\ IF info[t].result = "panic"
          THEN /\ pc' = [pc EXCEPT ![t] = "fatal"]
               /\ UNCHANGED info
          ELSE /\ info' = [info EXCEPT ![t].at = "idle"]
               /\ UNCHANGED pc
    /\ InfoFrameGone(t)
    /\ ev' = NoCall
    /\ UNCHANGED <<handle, session, depth, opens, made, xvars>>

\* The steps of Open and Close, whoever called them.
Handlers(t) ==
    \/ OpenEntry(t)
    \/ OpenLock(t)
    \/ OpenLoad(t)
    \/ OpenBackend(t)
    \/ CloseEntry(t)
    \/ CloseAttest(t)
    \/ CloseRwc(t)
    \/ CloseUnlock(t)

NextInfo ==
    \E t \in Threads :
        \/ InfoCall(t)
        \/ InfoOpenFailed(t)
        \/ InfoRead(t)
        \/ InfoReturn(t)
        \/ OpenEntry(t) /\ UNCHANGED others
        \/ OpenLock(t) /\ UNCHANGED others
        \/ OpenLoad(t) /\ UNCHANGED others
        \/ OpenBackend(t) /\ UNCHANGED others
        \/ CloseEntry(t) /\ UNCHANGED others
        \/ CloseAttest(t) /\ UNCHANGED others
        \/ CloseRwc(t) /\ UNCHANGED others
        \/ CloseUnlock(t) /\ UNCHANGED others

\* Info is called on a constructed handle; the device name, which Info never
\* reads, is left at its default.
InitInfo == Init /\ deviceName = ""

SpecInfo == InitInfo /\ [][NextInfo]_vars

\* The steps a goroutine takes once its Info call is made.
InfoStep(t) ==
    \/ InfoOpenFailed(t)
    \/ InfoRead(t)
    \/ InfoReturn(t)
    \/ Handlers(t) /\ UNCHANGED others

\* The scheduler runs every goroutine that can take a step, and a goroutine
\* waiting in Lock() gets the mutex if it is free again and again (the
\* mutex hands over to starving waiters).
SpecInfoFair ==
    /\ SpecInfo
    /\ \A t \in Threads :
        /\ WF_vars(InfoStep(t))
        /\ SF_vars(OpenLock(t) /\ UNCHANGED others)

\* --------------------------------------------------------------- x509util
\* The variables of the TPM handle and its callers, which no step of the
\* certificate pipeline reads or writes (ev records its external calls).
tpmvars == <<handle, pc, ctx, session, depth, ret, closeErr, opens, made,
             loads, opts, info>>

\* A nil *big.Int or a nil []byte.
Absent == "nil"

\* The SAN types the Go x509 library encodes itself, and one it does not.
DNSType == "dns"
EmailType == "email"
IPType == "ip"
URIType == "uri"
AutoType == "auto"
RegisteredIDType == "registeredID"
SANTypes == {DNSType, EmailType, IPType, URIType, AutoType, "",
             RegisteredIDType}
SubjectAlternativeNames == [Type : SANTypes, Value : {"v"}]

\* Object identifiers: subjectAltName, a prefix of it, and basicConstraints.
oidExtensionSubjectAltName == <<2, 5, 29, 17>>
ObjectIdentifiers == {oidExtensionSubjectAltName, <<2, 5, 29>>,
                      <<2, 5, 29, 19>>}
Extensions == [ID : ObjectIdentifiers, Value : {"template"}]

\* The DNSNames, EmailAddresses, IPAddresses and URIs of a template: none,
\* one of them, all of them.
NameFields ==
    { [DNSNames |-> <<>>, EmailAddresses |-> <<>>, IPAddresses |-> <<>>,
       URIs |-> <<>>],
      [DNSNames |-> <<"example.com">>, EmailAddresses |-> <<>>,
       IPAddresses |-> <<>>, URIs |-> <<>>],
      [DNSNames |-> <<"example.com">>, EmailAddresses |-> <<"a@example.com">>,
       IPAddresses |-> <<"127.0.0.1">>, URIs |-> <<"https://example.com">>] }

\* The Certificate templates of the model (the fields GetCertificate's SAN
\* rule and CreateCertificate's completion read).
Certificates ==
    { [DNSNames |-> n.DNSNames, EmailAddresses |-> n.EmailAddresses,
       IPAddresses |-> n.IPAddresses, URIs |-> n.URIs,
       SANs |-> sans, Extensions |-> exts,
       SerialNumber |-> sn, SubjectKeyID |-> ski] :
        n \in NameFields,
        sans \in UNION {[1..k -> SubjectAlternativeNames] : k \in 0..MaxSANs},
        exts \in UNION {[1..k -> Extensions] : k \in 0..MaxExts},
        sn \in {Absent, "template serial"},
        ski \in {Absent, "template key id"} }

\* new(x509.Certificate); sans lists the SANs that san.Set was applied to.
NewX509Certificate ==
    [DNSNames |-> <<>>, EmailAddresses |-> <<>>, IPAddresses |-> <<>>,
     URIs |-> <<>>, sans |-> <<>>, ExtraExtensions |-> <<>>,
     SerialNumber |-> Absent, SubjectKeyId |-> Absent]

\* asn1.ObjectIdentifier.Equal: same length and same arcs.
Equal(a, b) ==
    /\ Len(a) = Len(b)
    /\ \A i \in 1..Len(a) : a[i] = b[i]

\* The loop of hasExtendedSANs from index i: true at the first SAN whose
\* type is none of dns, ip, uri, auto, email and "".
RECURSIVE hasExtendedSANsFrom(_, _)
hasExtendedSANsFrom(sans, i) ==
    IF i > Len(sans) THEN FALSE
    ELSE IF ~(\/ sans[i].Type = DNSType
              \/ sans[i].Type = IPType
              \/ sans[i].Type = URIType
              \/ sans[i].Type = AutoType
              \/ sans[i].Type = EmailType
              \/ sans[i].Type = "")
         THEN TRUE
         ELSE hasExtendedSANsFrom(sans, i + 1)

\* Variant: the empty type is not among the accepted ones.
RECURSIVE hasExtendedSANsNoEmptyFrom(_, _)
hasExtendedSANsNoEmptyFrom(sans, i) ==
    IF i > Len(sans) THEN FALSE
    ELSE IF ~(\/ sans[i].Type = DNSType
              \/ sans[i].Type = IPType
              \/ sans[i].Type = URIType
              \/ sans[i].Type = AutoType
              \/ sans[i].Type = EmailType)
         THEN TRUE
         ELSE hasExtendedSANsNoEmptyFrom(sans, i + 1)

hasExtendedSANsNoEmpty(c) == hasExtendedSANsNoEmptyFrom(c.SANs, 1)

hasExtendedSANs(c) == hasExtendedSANsFrom(c.SANs, 1)

\* The loop of hasExtension from index i.
RECURSIVE hasExtensionFrom(_, _, _)
hasExtensionFrom(exts, oid, i) ==
    IF i > Len(exts) THEN FALSE
    ELSE IF Equal(exts[i].ID, oid) THEN TRUE
    ELSE hasExtensionFrom(exts, oid, i + 1)

hasExtension(c, oid) == hasExtensionFrom(c.Extensions, oid, 1)

\* createSubjectAltNameExtension(c, ...): the extension that encodes the
\* template's names as GeneralNames.
createSubjectAltNameExtension(c) ==
    [ID |-> oidExtensionSubjectAltName, Value |-> "GeneralNames"]

\* The for loop `san.Set(cert)` over sans from index i.
RECURSIVE SetSANs(_, _, _)
SetSANs(sans, i, x) ==
    IF i > Len(sans) THEN x
    ELSE SetSANs(sans, i + 1, [x EXCEPT !.sans = Append(@, sans[i])])

\* The for loop `e.Set(cert)` over the custom extensions from index i.
RECURSIVE SetExtensions(_, _, _)
SetExtensions(exts, i, x) ==
    IF i > Len(exts) THEN x
    ELSE SetExtensions(exts, i + 1,
                       [x EXCEPT !.ExtraExtensions = Append(@, exts[i])])

\* GetCertificate after the SAN branch: c.SubjectKeyID.Set, the custom
\* extensions, c.SerialNumber.Set.
SetOthers(c, x) ==
    [SetExtensions(c.Extensions, 1,
                   [x EXCEPT !.SubjectKeyId = c.SubjectKeyID])
        EXCEPT !.SerialNumber = c.SerialNumber]

\* The branch of GetCertificate that builds the SAN extension.
SetSubjectAltNameExtension(c, x) ==
    [x EXCEPT !.ExtraExtensions =
                  Append(@, createSubjectAltNameExtension(c))]

\* The branch of GetCertificate that leaves the encoding to the x509 library.
SetNames(c, x) ==
    SetSANs(c.SANs, 1,
            [x EXCEPT !.DNSNames = c.DNSNames,
                      !.EmailAddresses = c.EmailAddresses,
                      !.IPAddresses = c.IPAddresses,
                      !.URIs = c.URIs])

\* c.GetCertificate(): returns the x509.Certificate, or panics when the SAN
\* extension cannot be built.
GetCertificate ==
    /\ xpc = "GetCertificate"
    /\ IF hasExtendedSANs(tmpl) /\ ~hasExtension(tmpl, oidExtensionSubjectAltName)
       THEN \E r \in Outcomes :
                IF r = "err"
                THEN /\ xpc' = "panic"
                     /\ cert' = cert
                ELSE /\ xpc' = "CreateCertificate"
                     /\ cert' = SetOthers(tmpl,
                                   SetSubjectAltNameExtension(tmpl, cert))
       ELSE /\ xpc' = "CreateCertificate"
            /\ cert' = SetOthers(tmpl, SetNames(tmpl, cert))
    /\ UNCHANGED <<tmpl, out, ev, tpmvars>>

\* Variant: the serial number is generated whatever the template holds.
generateSerialNumberAlways ==
    /\ xpc = "CreateCertificate"
    /\ \E r \in Outcomes :
        /\ ev' = [call |-> "generateSerialNumber", target |-> "none",
                  err |-> (r = "err")]
        /\ IF r = "err"
           THEN /\ out' = "error"
                /\ xpc' = "return"
                /\ cert' = cert
           ELSE /\ cert' = [cert EXCEPT !.SerialNumber = "generated serial"]
                /\ xpc' = "SubjectKeyId"
                /\ out' = out
    /\ UNCHANGED <<tmpl, tpmvars>>

\* CreateCertificate, first completion: a nil SerialNumber is generated.
generateSerialNumber ==
    /\ xpc = "CreateCertificate"
    /\ IF cert.SerialNumber = Absent
       THEN \E r \in Outcomes :
            /\ ev' = [call |-> "generateSerialNumber", target |-> "none",
                      err |-> (r = "err")]
            /\ IF r = "err"
               THEN /\ out' = "error"
                    /\ xpc' = "return"
                    /\ cert' = cert
               ELSE /\ cert' = [cert EXCEPT !.SerialNumber = "generated serial"]
                    /\ xpc' = "SubjectKeyId"
                    /\ out' = out
       ELSE /\ xpc' = "SubjectKeyId"
            /\ UNCHANGED <<cert, out, ev>>
    /\ UNCHANGED <<tmpl, tpmvars>>

\* CreateCertificate, second completion: a nil SubjectKeyId is generated.
generateSubjectKeyID ==
    /\ xpc = "SubjectKeyId"
    /\ IF cert.SubjectKeyId = Absent
       THEN \E r \in Outcomes :
            /\ ev' = [call |-> "generateSubjectKeyID", target |-> "pub",
                      err |-> (r = "err")]
            /\ IF r = "err"
               THEN /\ out' = "error"
                    /\ xpc' = "return"
                    /\ cert' = cert
               ELSE /\ cert' = [cert EXCEPT !.SubjectKeyId = "generated key id"]
                    /\ xpc' = "Sign"
                    /\ out' = out
       ELSE /\ xpc' = "Sign"
            /\ UNCHANGED <<cert, out, ev>>
    /\ UNCHANGED <<tmpl, tpmvars>>

\* CreateCertificate, signing: x509.CreateCertificate, then
\* x509.ParseCertificate of its output.
SignCertificate ==
    /\ xpc = "Sign"
    /\ \E r \in Outcomes, p \in Outcomes :
        /\ ev' = [call |-> "x509.CreateCertificate", target |-> "template",
                  err |-> (r = "err")]
        /\ out' = IF r = "err" THEN "error creating certificate"
                  ELSE IF p = "err" THEN "error parsing certificate"
                  ELSE "certificate"
    /\ xpc' = "return"
    /\ UNCHANGED <<tmpl, cert, tpmvars>>

\* A template is given; the handle of the TPM is not in use.
InitCert ==
    /\ deviceName = ""
    /\ attestConfig = AttestConfig
    /\ store = "BlackHole"
    /\ simulator = Nil
    /\ attestTPM = Nil
    /\ rwc = Nil
    /\ lock = Free
    /\ pc = [t \in Threads |-> "caller"]
    /\ ctx = [t \in Threads |-> [internal |-> FALSE, goTPM |-> FALSE]]
    /\ session = [t \in Threads |-> "none"]
    /\ depth = [t \in Threads |-> 0]
    /\ ret = [t \in Threads |-> "none"]
    /\ closeErr = [t \in Threads |-> FALSE]
    /\ opens = 0
    /\ made = 0
    /\ ev = NoCall
    /\ loads = [t \in Threads |-> 0]
    /\ opts = <<>>
    /\ info = [t \in Threads |-> InfoIdle]
    /\ tmpl \in Certificates
    /\ cert = NewX509Certificate
    /\ out = "none"
    /\ xpc = "GetCertificate"

NextCert ==
    \/ GetCertificate
    \/ generateSerialNumber
    \/ generateSubjectKeyID
    \/ SignCertificate

SpecCert == InitCert /\ [][NextCert]_vars

\* ------------------------------------------------------------------ types
TypeOK ==
    /\ deviceName \in DeviceNames
    /\ store \in Stores
    /\ simulator \in {Nil, TheSimulator}
    /\ lock \in {Free} \cup Threads
    /\ pc \in [Threads -> {"caller", "Open", "Open_lock", "Open_load", "Open_backend",
                           "Close", "Close_attest", "Close_rwc", "Close_unlock", "fatal"}]
    /\ ctx \in [Threads -> Contexts]
    /\ session \in [Threads -> {"none", "open", "closing"}]
    /\ depth \in [Threads -> 0..MaxDepth]
    /\ ret \in [Threads -> {"none", "ok", "err", "void"}]
    /\ closeErr \in [Threads -> BOOLEAN]
    /\ opens \in 0..MaxOpens
    /\ made \in 0..MaxOpens
    /\ attestConfig = AttestConfig
    /\ loads \in [Threads -> 0..1]

\* ----------------------------------------------------------------- claims
\* Thread t is inside a non-reentrant Open/Close cycle: its Open has taken
\* the lock and is still running, or has returned nil and the matching Close
\* has not returned yet.
InCycle(t) ==
    \/ pc[t] \in {"Open_load", "Open_backend"}
    \/ session[t] \in {"open", "closing"}

\* Thread t's last call was a non-reentrant Open that returned an error.
OpenFailed(t) == pc[t] = "caller" /\ ret[t] = "err" /\ session[t] = "none"

\* Thread t is between a successful non-reentrant Open and the call of its
\* matching Close.
Opened(t) == session[t] = "open"

\* C1: the exclusive lock is held if and only if a non-reentrant Open has
\* succeeded (or is running with the lock) and its matching Close has not yet
\* released it; in particular it is not held after an Open that failed.
C1_LockHeldIffCycleActive == (lock # Free) <=> (\E t \in Threads : InCycle(t))

\* C2: after a non-reentrant Open has returned a failure, the lock that Open
\* acquired has been released, so a later Open can acquire it.
C2_FailedOpenReleasesLock == \A t \in Threads : OpenFailed(t) => lock # t

\* C3: at most one non-reentrant Open/Close cycle is active at a time, and
\* the thread inside it is the one holding the lock: no other thread runs
\* store.Load or backend establishment or returns from Open meanwhile.
C3_OneCycleAtATime ==
    \A t, u \in Threads :
        InCycle(t) => /\ lock = t
                      /\ (InCycle(u) => u = t)

\* C3 witness: one thread is inside its cycle while another is blocked in
\* Lock().
C3_Witness ==
    \E t, u \in Threads : t # u /\ Opened(t) /\ pc[u] = "Open_lock" /\ lock = t

\* The step of thread t that runs an Open or Close carrying the internal-call
\* marker.
InternalStep(t) ==
    /\ pc[t] \in {"Open", "Close"}
    /\ isInternalCall(ctx[t])
    /\ pc'[t] # pc[t]

\* C4: an Open or Close carrying the internal-call marker returns at once
\* (Open with nil) without touching the lock, attestTPM, rwc or simulator and
\* without any external call; so while a cycle is open, whatever internal
\* calls are nested in it, its thread holds the lock and a backend is
\* populated.
C4_InternalCallIsNoOp ==
    /\ [](\A t \in Threads :
            Opened(t) => lock = t /\ (attestTPM # Nil \/ rwc # Nil))
    /\ [][\A t \in Threads :
            InternalStep(t) =>
                /\ pc'[t] = "caller"
                /\ ret'[t] = (IF pc[t] = "Open" THEN "ok" ELSE "void")
                /\ UNCHANGED handle
                /\ ev' = NoCall]_vars

\* C4 witness: inside an open cycle, two internal Opens deep, one internal Close has returned
\* and the other internal Open is still outstanding.
C4_Witness ==
    \E t \in Threads :
        /\ Opened(t) /\ pc[t] = "caller" /\ depth[t] = 1
        /\ isInternalCall(ctx[t]) /\ ret[t] = "void"
        /\ lock = t

\* C5: with no simulator, attestTPM and rwc are never both populated, and
\* between a successful non-reentrant Open and its matching Close exactly one
\* of them is.
C5_ExactlyOneBackend ==
    simulator = Nil =>
        /\ ~(attestTPM # Nil /\ rwc # Nil)
        /\ \A t \in Threads : Opened(t) => ((attestTPM # Nil) # (rwc # Nil))

\* C5 witness: no simulator, a later cycle is open on the raw channel after
\* an earlier one used another backend object.
C5_Witness ==
    /\ simulator = Nil
    /\ \E t \in Threads : Opened(t) /\ isGoTPMCall(ctx[t])
    /\ rwc.kind = "rwc" /\ rwc.id >= 2

\* The step of thread t in which a non-reentrant Close returns.
CloseReturns(t) ==
    /\ pc[t] \in {"Close", "Close_unlock"}
    /\ ~isInternalCall(ctx[t])
    /\ pc'[t] = "caller"

\* C6: when a non-reentrant Close returns the lock is free (a waiting Open
\* can take it), and with no simulator attestTPM and rwc are both nil.
C6_CloseLeavesHandleClosed ==
    [][\A t \in Threads :
        CloseReturns(t) =>
            /\ lock' = Free
            /\ (simulator = Nil => attestTPM' = Nil /\ rwc' = Nil)]_vars

\* C6 witness: no simulator, a Close has just returned after tearing a
\* backend down, and another thread is waiting in Lock().
C6_Witness ==
    /\ simulator = Nil /\ lock = Free /\ ev.call = "Unlock"
    /\ attestTPM = Nil /\ rwc = Nil /\ made >= 1
    /\ \E t, u \in Threads :
        /\ pc[t] = "caller" /\ ret[t] = "void" /\ session[t] = "none"
        /\ pc[u] = "Open_lock"

\* C7: with a simulator configured, no step replaces or clears the simulator
\* reference, and no step closes the simulator (rwc.Close() on the alias).
C7_SimulatorKept ==
    [][simulator # Nil =>
        /\ simulator' = simulator
        /\ ~(ev'.call = "rwc.Close" /\ ev'.target = "simulator")]_vars

\* C7 witness: a simulator handle after a complete Open/Close cycle, the
\* alias still in place.
C7_Witness ==
    /\ simulator = TheSimulator /\ rwc = TheSimulator
    /\ lock = Free /\ ev.call = "Unlock"
    /\ \E t \in Threads : pc[t] = "caller" /\ ret[t] = "void"

\* C8: while a cycle is open the backend is the one selected by
\* simulator > go-tpm marker > default.
C8_BackendSelection ==
    \A t \in Threads :
        Opened(t) =>
            IF simulator # Nil
               THEN /\ attestTPM.kind = "attest"
                    /\ attestTPM.cfg = SimulatorConfig
                    /\ rwc = simulator
               ELSE IF isGoTPMCall(ctx[t])
                       THEN /\ rwc.kind = "rwc"
                            /\ rwc.dev = deviceName
                            /\ attestTPM = Nil
                       ELSE /\ attestTPM.kind = "attest"
                            /\ attestTPM.cfg = AttestConfig
                            /\ rwc = Nil

\* C8 witness: a simulator handle opened with the go-tpm marker.
C8_Witness ==
    /\ simulator # Nil
    /\ \E t \in Threads : Opened(t) /\ isGoTPMCall(ctx[t]) /\ ~isInternalCall(ctx[t])

\* C9: with a simulator configured at most one attestation session is ever
\* established, and once populated attestTPM keeps holding that same session
\* through every later Close and Open.
C9_SimulatorSessionReused ==
    /\ [](simulator # Nil => made <= 1)
    /\ [][(simulator # Nil /\ attestTPM # Nil) => attestTPM' = attestTPM]_vars

\* C9 witness: a simulator handle whose second cycle is open on the session
\* established by the first.
C9_Witness ==
    /\ simulator # Nil /\ attestTPM.id = 1 /\ made = 1
    /\ \E t, u \in Threads :
        /\ t # u /\ Opened(t) /\ ev.call = "none"
        /\ ret[u] = "void" /\ session[u] = "none"

\* C10: without a simulator every teardown step of Close goes on whatever
\* the backend's Close() reported: the field is cleared, the next step is
\* reached, and the last step releases the lock and returns normally.
C10_CloseSwallowsErrors ==
    [][\A t \in Threads :
        /\ (pc[t] = "Close_attest" /\ pc'[t] # pc[t]) =>
               attestTPM' = Nil /\ pc'[t] = "Close_rwc"
        /\ (pc[t] = "Close_rwc" /\ pc'[t] # pc[t]) =>
               rwc' = Nil /\ pc'[t] = "Close_unlock"
        /\ (pc[t] = "Close_unlock" /\ pc'[t] # pc[t]) =>
               lock' = Free /\ pc'[t] = "caller" /\ ret'[t] = "void"]_vars

\* C10 witness: a Close has returned normally after a backend Close()
\* reported an error; both fields are nil and the lock is free.
C10_Witness ==
    \E t \in Threads :
        /\ closeErr[t] /\ pc[t] = "caller" /\ ret[t] = "void"
        /\ session[t] = "none"
        /\ attestTPM = Nil /\ rwc = Nil /\ lock = Free /\ ev.call = "Unlock"

\* C11: a non-reentrant Open calls store.Load exactly once, holding the lock
\* and before any backend is established; when Load fails Open returns the
\* failure and leaves attestTPM and rwc as they were; a reentrant Open never
\* calls Load.
C11_LoadOncePerOpen ==
    /\ [](\A t \in Threads :
            /\ (pc[t] \in {"Open", "Open_lock", "Open_load"} => loads[t] = 0)
            /\ (pc[t] = "Open_backend" => loads[t] = 1 /\ lock = t)
            /\ (pc[t] = "caller" /\ ret[t] \in {"ok", "err"} =>
                    loads[t] = (IF isInternalCall(ctx[t]) THEN 0 ELSE 1)))
    /\ [][\A t \in Threads :
            /\ (loads'[t] > loads[t] =>
                    /\ lock = t /\ ev'.call = "store.Load"
                    /\ attestTPM' = attestTPM /\ rwc' = rwc /\ made' = made)
            /\ (pc[t] = "Open_load" /\ ev'.call = "store.Load" /\ ev'.err =>
                    /\ pc'[t] = "caller" /\ ret'[t] = "err"
                    /\ attestTPM' = attestTPM /\ rwc' = rwc /\ made' = made)
            /\ (pc[t] = "Open_backend" /\ pc'[t] # pc[t] => loads[t] = 1)]_vars

\* C11 witness: on a simulator handle whose session exists already, a later
\* Open has returned the failure of its one Load call.
C11_Witness ==
    /\ ev.call = "store.Load" /\ ev.err
    /\ simulator # Nil /\ attestTPM # Nil
    /\ \E t \in Threads :
        pc[t] = "caller" /\ ret[t] = "err" /\ loads[t] = 1 /\ lock = t

\* The handle is under construction and no option has been applied yet.
NoOptionApplied == (\A t \in Threads : pc[t] = "New") /\ ev = NoCall

\* C12: the store of a handle is never nil: New without options leaves the
\* black-hole store, no option list (WithStore(nil) included) makes it nil,
\* and after New no step of Open or Close changes store, deviceName or
\* attestConfig.
C12_StoreNeverNil ==
    /\ [](store # NilStore)
    /\ [][(NoOptionApplied /\ (\A t \in Threads : pc'[t] = "caller"))
              => store' = "BlackHole"]_vars
    /\ [][(\A t \in Threads : pc[t] # "New")
              => UNCHANGED <<store, deviceName, attestConfig>>]_vars

\* C12 witness: WithStore(nil) has just been applied and the handle holds the
\* black-hole store.
C12_Witness ==
    /\ ev.call = "WithStore" /\ ev.target = NilStore
    /\ store = "BlackHole"

\* C13: without a simulator attestTPM is non-nil only inside a cycle opened
\* on the attestation backend and rwc only inside a cycle opened on the raw
\* channel (from the successful Open until the matching Close has torn it
\* down); an Open that fails at backend establishment leaves both fields as
\* they were.
C13_BackendOnlyInsideCycle ==
    /\ [](simulator = Nil =>
            /\ (attestTPM # Nil =>
                    \E t \in Threads : /\ session[t] \in {"open", "closing"}
                                       /\ ~isGoTPMCall(ctx[t]))
            /\ (rwc # Nil =>
                    \E t \in Threads : /\ session[t] \in {"open", "closing"}
                                       /\ isGoTPMCall(ctx[t])))
    /\ [][\A t \in Threads :
            (pc[t] = "Open_backend" /\ pc'[t] = "caller" /\ ret'[t] = "err")
                => attestTPM' = attestTPM /\ rwc' = rwc]_vars

\* C13 witness: without a simulator, an Open of a later cycle has failed at
\* backend establishment and both fields are still nil.
C13_Witness ==
    /\ simulator = Nil /\ made >= 1
    /\ ev.err /\ ev.call \in {"attest.OpenTPM", "open.TPM"}
    /\ attestTPM = Nil /\ rwc = Nil
    /\ \E t \in Threads : pc[t] = "caller" /\ ret[t] = "err"

\* Thread t's Info call has returned to its caller.
InfoReturned(t) == info[t].at = "idle" /\ info[t].result # "none"

\* C14: Info calls Open, then reads, then calls Close exactly once on every
\* way out that follows a successful Open (a failed read included); when Open
\* fails Info returns the wrapped error with no read and no Close.
C14_InfoOpenReadClose ==
    \A t \in Threads :
        /\ (info[t].at = "Open" => info[t].reads = 0 /\ info[t].closes = 0)
        /\ (info[t].at = "Close" =>
                info[t].opened /\ info[t].reads = 1 /\ info[t].closes = 1)
        /\ (InfoReturned(t) =>
                IF info[t].opened
                   THEN /\ info[t].reads = 1 /\ info[t].closes = 1
                        /\ info[t].result \in {"ok", "failed getting TPM info"}
                   ELSE /\ info[t].reads = 0 /\ info[t].closes = 0
                        /\ info[t].result = "failed opening TPM")

\* C14 witness: an Info call whose read failed has returned after its one
\* Close, which released the lock it held.
C14_Witness ==
    \E t \in Threads :
        /\ InfoReturned(t) /\ info[t].result = "failed getting TPM info"
        /\ info[t].closes = 1
        /\ ev.call = "none" /\ lock = Free /\ made >= 1

\* C15: whenever Info is about to read the device after a successful Open,
\* attestTPM is populated, whatever markers the context carries and with or
\* without a simulator.
C15_InfoReadsPopulatedSession ==
    \A t \in Threads :
        (info[t].at = "Open" /\ pc[t] = "caller" /\ ret[t] = "ok")
            => attestTPM # Nil

\* C15 on the raw-transport marker alone: the case of a caller that passes
\* the go-tpm marker and no internal-call marker.
C15_RawTransportCase ==
    \A t \in Threads :
        (/\ info[t].at = "Open" /\ pc[t] = "caller" /\ ret[t] = "ok"
         /\ isGoTPMCall(ctx[t]) /\ ~isInternalCall(ctx[t]))
            => attestTPM # Nil

\* No Info call carries the internal-call marker.
NoInternalMarker == \A t \in Threads : ~isInternalCall(ctx[t])

\* No Open has returned a failure.
NoOpenFailure == \A t \in Threads : ret[t] # "err"

\* No Info call is running.
AllIdle == \A t \in Threads : info[t].at = "idle" /\ pc[t] = "caller"

\* C16: with fair scheduling, if no Info call carries the internal-call
\* marker and neither store.Load nor backend establishment ever fails, every
\* Info call made returns, and once all have returned the lock is free and,
\* without a simulator, no backend is populated.
C16_InfoCallsComplete ==
    [](NoInternalMarker /\ NoOpenFailure) =>
        /\ \A t \in Threads : (info[t].at # "idle") ~> (info[t].at = "idle")
        /\ [](AllIdle => /\ lock = Free
                         /\ (simulator = Nil => attestTPM = Nil /\ rwc = Nil))

\* C16 for contexts that carry no marker at all.
C16_UnmarkedCallsComplete ==
    [](NoInternalMarker /\ NoOpenFailure
            /\ (\A t \in Threads : ~isGoTPMCall(ctx[t]))) =>
        /\ \A t \in Threads : (info[t].at # "idle") ~> (info[t].at = "idle")
        /\ [](AllIdle => /\ lock = Free
                         /\ (simulator = Nil => attestTPM = Nil /\ rwc = Nil))

\* GetCertificate has been called on the template.
GetCertificateActed == xpc # "GetCertificate"

\* The template has a SAN of a type other than dns, ip, uri, email, auto and
\* the empty type, and none of its Extensions has the subjectAltName OID.
ExtendedSANRule ==
    /\ \E i \in 1..Len(tmpl.SANs) :
           tmpl.SANs[i].Type \notin {"dns", "ip", "uri", "email", "auto", ""}
    /\ \A i \in 1..Len(tmpl.Extensions) :
           tmpl.Extensions[i].ID # <<2, 5, 29, 17>>

\* The positions of the extensions of the certificate that GetCertificate
\* built from the template's names.
BuiltSANExtensions ==
    {i \in 1..Len(cert.ExtraExtensions) :
        cert.ExtraExtensions[i].Value = "GeneralNames"}

\* One SAN extension was built and no name was copied individually.
SANExtensionOnly ==
    /\ Cardinality(BuiltSANExtensions) = 1
    /\ cert.DNSNames = <<>> /\ cert.EmailAddresses = <<>>
    /\ cert.IPAddresses = <<>> /\ cert.URIs = <<>>
    /\ cert.sans = <<>>

\* The four fields were copied, every SAN was applied, nothing was built.
NamesCopied ==
    /\ cert.DNSNames = tmpl.DNSNames
    /\ cert.EmailAddresses = tmpl.EmailAddresses
    /\ cert.IPAddresses = tmpl.IPAddresses
    /\ cert.URIs = tmpl.URIs
    /\ cert.sans = tmpl.SANs
    /\ BuiltSANExtensions = {}

GenerationFailed ==
    ev.call \in {"generateSerialNumber", "generateSubjectKeyID"} /\ ev.err

\* C18: CreateCertificate calls generateSerialNumber only for a template
\* without SerialNumber and generateSubjectKeyID only for one without
\* SubjectKeyId; a value the template holds is the one signed; a failed
\* generation makes CreateCertificate return the error, and
\* x509.CreateCertificate is not called.
C18_CompletesOnlyAbsentFields ==
    (GetCertificateActed /\ xpc # "panic") =>
        /\ ev.call = "generateSerialNumber" => tmpl.SerialNumber = Absent
        /\ ev.call = "generateSubjectKeyID" => tmpl.SubjectKeyID = Absent
        /\ tmpl.SerialNumber # Absent => cert.SerialNumber = tmpl.SerialNumber
        /\ tmpl.SubjectKeyID # Absent => cert.SubjectKeyId = tmpl.SubjectKeyID
        /\ GenerationFailed => xpc = "return" /\ out = "error"
        /\ out = "error" => GenerationFailed
        /\ ev.call = "x509.CreateCertificate" =>
               cert.SerialNumber # Absent /\ cert.SubjectKeyId # Absent

C18_Witness ==
    /\ xpc = "return"
    /\ tmpl.SerialNumber # Absent
    /\ tmpl.SubjectKeyID = Absent
    /\ cert.SerialNumber = tmpl.SerialNumber
    /\ ev.call = "generateSubjectKeyID"
    /\ ev.err
    /\ out = "error"

====
